---- MODULE Spec2Model ----
(***************************************************************************)
(* A model of in_place.InPlace (src/src/in_place.py): one editor session   *)
(* over a small filesystem.  Every filesystem primitive the session calls  *)
(* (mkstemp, open, copystat, chown, close, os.replace, os.unlink) is one   *)
(* step that either succeeds or raises, so that every point at which the   *)
(* process could stop is a state of the model.                             *)
(*                                                                         *)
(* File contents and the data passed to write() are sequences of abstract  *)
(* units, as seen through a handle of the session's mode; one unit is one  *)
(* line.  The session never looks at the data it passes on, so the caller  *)
(* of the model writes units that are all different: the k-th unit written *)
(* is Unit(k).                                                             *)
(***************************************************************************)
EXTENDS Integers, Sequences, FiniteSets, TLC

\* ---- bounds of the model ------------------------------------------------
MaxOrig == 2      \* longest original content of the target, in units
MaxWritten == 2   \* most units written through one session

\* ---- values ---------------------------------------------------------------
None == "<None>"                 \* Python's None, for paths, modes, arguments
NoExit == "<no __exit__>"            \* __exit__ has finalized nothing
NoExc == "<no exception>"        \* no exception pending
OK == "ok"                       \* a call returned normally

cwd == "/d/"
name == "f"

\* the exceptions of the module, by the place that raises them
ErrBothBackups == "ValueError: backup and backup_ext are mutually exclusive"
ErrEmptyExt == "ValueError: backup_ext cannot be empty"
ErrInvalidMode == "ValueError: invalid mode"
ErrRollbackClosed == "ValueError: Cannot rollback closed file"
ErrNotOpen == "ValueError: Filehandle is not currently open"
ErrMkstemp == "OSError: mkstemp"
ErrOpenWrite == "OSError: open for writing"
ErrCopystat == "OSError: copystat"
ErrOpenRead == "OSError: open for reading"
ErrCloseInput == "OSError: input.close"
ErrCloseOutput == "OSError: output.close"
ErrFlush == "OSError: output.flush"
ErrReplaceBackup == "OSError: replace realpath -> backuppath"
ErrReplaceTmp == "OSError: replace tmppath -> realpath"
ErrUnlink == "OSError: unlink"

\* ---- paths ------------------------------------------------------------------
\* os.path.join(cwd, p) for a relative p
join(dir, p) == dir \o p
filepath == join(cwd, name)
\* os.path.realpath: the target is no symbolic link
realpath == filepath
\* the name tempfile.mkstemp(dir=dirname(realpath), prefix="._in_place-") makes
TmpName == join(cwd, "._in_place-" \o "0001")
Paths == {realpath, join(cwd, "bak"), realpath \o ".ext", TmpName}

\* ---- files ------------------------------------------------------------------
NoFile == [content |-> <<>>, perm |-> None, uid |-> None, gid |-> None]
File(c, p, u, g) == [content |-> c, perm |-> p, uid |-> u, gid |-> g]
\* what mkstemp creates: empty, mode 0600, owned by the process
NewTmpFile == File(<<>>, "0600", "me", "g_me")
OldBackup == File(<<"old">>, "0640", "me", "g_me")

Prefix(s, n) == SubSeq(s, 1, n)
Suffix(s, n) == SubSeq(s, n + 1, Len(s))
Min(a, b) == IF a < b THEN a ELSE b

\* the k-th unit a caller writes
Unit(k) == <<"w1", "w2", "w3", "w4", "w5", "w6">>[k]
\* the n lines a caller writes after having written k units
FreshLines(k, n) == [i \in 1..n |-> <<Unit(k + i)>>]

OrigContents == {Prefix(<<"a", "b", "a", "b", "a">>, n) : n \in 0..MaxOrig}
Owners == {[uid |-> "me", gid |-> "g_me"], [uid |-> "other", gid |-> "g_other"]}

\* ---- handles ----------------------------------------------------------------
\* state: "None" (the attribute is None), "open", or "closed" (the attribute
\* still refers to a file object whose close() raised)
\* pos: how far a read handle has read; buf: what a write handle has buffered;
\* log: what the reads through the handle have returned, in call order
NoHandle == [state |-> "None", path |-> None, pos |-> 0, buf |-> <<>>, log |-> <<>>]
OpenHandle(p) == [state |-> "open", path |-> p, pos |-> 0, buf |-> <<>>, log |-> <<>>]

VARIABLES
    fs,          \* the directory: path -> file or NoFile
    mode,        \* self.mode
    backuppath,  \* self.backuppath
    input,       \* self.input
    output,      \* self.output
    tmppath,     \* self._tmppath
    closed,      \* self.closed
    pc,          \* where control is: "start", "ready" (with the caller), "noobject", or a step
    op,          \* the method the caller invoked that is running
    fin,         \* the finalizer whose body is running: "close" or "rollback"
    exc,         \* the exception pending while cleanup runs; after a constructor that
                 \* raised, the exception its except clause caught
    err,         \* what the latest call gave the caller: OK or an exception; None while it runs
    lastOp,      \* the latest call, once it has returned; None while it runs
    args,        \* the arguments the constructor was called with
    fs0,         \* the directory before the session was opened
    written,     \* everything written through the session, in call order
    closedBy,    \* what took closed from False to True: "close", "rollback" (called by
                 \* the caller or by __exit__) or "__init__" (the constructor's rollback)
    finResult,   \* what the call that did so returned: "pending" until it returns
    exc_type     \* the exc_type of the __exit__ call that found the session open and
                 \* finalized it (None: the with block ended normally); NoExit before

vars == <<fs, mode, backuppath, input, output, tmppath, closed, pc, op, fin, exc,
          err, lastOp, args, fs0, written, closedBy, finResult, exc_type>>

session == <<mode, backuppath, input, output, tmppath, closed>>
ghost == <<args, fs0, written, exc_type>>

Exists(f, p) == f[p] # NoFile

Init ==
    /\ \E c \in OrigContents, o \in Owners, b \in {NoFile, OldBackup} :
          fs = [p \in Paths |->
                  IF p = realpath THEN File(c, "0644", o.uid, o.gid)
                  ELSE IF p \in {join(cwd, "bak"), realpath \o ".ext"} THEN b
                  ELSE NoFile]
    /\ fs0 = fs
    /\ mode = None /\ backuppath = None
    /\ input = NoHandle /\ output = NoHandle /\ tmppath = None
    /\ closed = FALSE
    /\ pc = "start" /\ op = None /\ fin = None /\ exc = NoExc
    /\ err = None /\ lastOp = None
    /\ args = [mode |-> None, backup |-> None, backup_ext |-> None]
    /\ written = <<>>
    /\ closedBy = None /\ finResult = None
    /\ exc_type = NoExit

\* ---- control ------------------------------------------------------------------
\* the running call returns to the caller, normally (e = OK) or raising e
Return(e) ==
    /\ err' = e
    /\ lastOp' = op
    /\ pc' = IF op = "__init__" /\ e # OK THEN "noobject" ELSE "ready"
    /\ op' = None /\ fin' = None
    /\ exc' = IF op = "__init__" /\ e # OK THEN exc ELSE NoExc
    /\ finResult' = IF finResult = "pending" THEN e ELSE finResult

\* a call that runs no step of its own returns at once
ReturnFrom(o, e) ==
    /\ err' = e
    /\ lastOp' = o
    /\ UNCHANGED <<pc, op, fin, exc, finResult>>

\* ---- InPlace.__init__ ------------------------------------------------------------
\* mutant: the empty backup_ext is let through
BackupError_EmptyAccepted(b, e) ==
    IF b # None /\ e # None THEN ErrBothBackups ELSE OK

\* lines 75-86: the backup path of the arguments, or the ValueError they raise
BackupError(b, e) ==
    IF b # None /\ e # None THEN ErrBothBackups
    ELSE IF b = None /\ e # None /\ e = "" THEN ErrEmptyExt
    ELSE OK

BackupPathOf(b, e) ==
    IF b # None THEN join(cwd, b)
    ELSE IF e # None THEN realpath \o e
    ELSE None

\* lines 66-99: the arguments are checked and the attributes set; no file is touched
InPlace_init(m, b, e) ==
    /\ pc = "start"
    /\ args' = [mode |-> m, backup |-> b, backup_ext |-> e]
    /\ IF BackupError(b, e) # OK
       THEN /\ err' = BackupError(b, e)
            /\ lastOp' = "__init__"
            /\ pc' = "noobject"
            /\ UNCHANGED <<mode, backuppath, op>>
       ELSE /\ mode' = m
            /\ backuppath' = BackupPathOf(b, e)
            /\ op' = "__init__"
            /\ pc' = "mktemp"
            /\ UNCHANGED <<err, lastOp>>
    /\ UNCHANGED <<fs, input, output, tmppath, closed, fin, exc, fs0, written,
                   closedBy, finResult, exc_type>>

\* lines 106-108: except Exception: self.rollback(); raise.  rollback() (line 197)
\* finds closed False and enters _close, which sets closed (line 162)
InitExcept(e) ==
    /\ exc' = e
    /\ fin' = "rollback"
    /\ closed' = TRUE
    /\ closedBy' = "__init__"
    /\ finResult' = "pending"
    /\ pc' = "close_input"
    /\ UNCHANGED <<op, err, lastOp>>

\* lines 101, 121-131: tempfile.mkstemp in the target's directory
mktemp ==
    /\ pc = "mktemp"
    /\ \/ /\ ~Exists(fs, TmpName)
          /\ fs' = [fs EXCEPT ![TmpName] = NewTmpFile]
          /\ tmppath' = TmpName
          /\ pc' = "open_write"
          /\ UNCHANGED <<closed, fin, exc, op, err, lastOp, closedBy, finResult>>
       \/ /\ InitExcept(ErrMkstemp)
          /\ UNCHANGED <<fs, tmppath>>
    /\ UNCHANGED <<mode, backuppath, input, output, ghost>>

\* lines 138-143, 150-155: the mode of open_read and open_write
ValidMode(m) == m = None \/ m = "t" \/ m = "b"

\* mutant: the write handle is opened on the target itself
open_write_OnTarget ==
    /\ pc = "open_write"
    /\ \/ /\ ValidMode(mode)
          /\ output' = OpenHandle(realpath)
          /\ fs' = [fs EXCEPT ![realpath].content = <<>>]
          /\ pc' = "copystat"
          /\ UNCHANGED <<closed, fin, exc, op, err, lastOp, closedBy, finResult>>
       \/ /\ InitExcept(IF ValidMode(mode) THEN ErrOpenWrite ELSE ErrInvalidMode)
          /\ UNCHANGED <<fs, output>>
    /\ UNCHANGED <<mode, backuppath, input, tmppath, ghost>>

\* lines 102, 145-155: open(tmppath, "w"): the file is truncated
open_write ==
    /\ pc = "open_write"
    /\ \/ /\ ValidMode(mode)
          /\ output' = OpenHandle(tmppath)
          /\ fs' = [fs EXCEPT ![tmppath].content = <<>>]
          /\ pc' = "copystat"
          /\ UNCHANGED <<closed, fin, exc, op, err, lastOp, closedBy, finResult>>
       \/ /\ InitExcept(IF ValidMode(mode) THEN ErrOpenWrite ELSE ErrInvalidMode)
          /\ UNCHANGED <<fs, output>>
    /\ UNCHANGED <<mode, backuppath, input, tmppath, ghost>>

\* lines 103, 275: shutil.copystat(realpath, tmppath): permission bits (and times)
copystat ==
    /\ pc = "copystat"
    /\ \/ /\ fs' = [fs EXCEPT ![tmppath].perm = fs[realpath].perm]
          /\ pc' = "chown"
          /\ UNCHANGED <<closed, fin, exc, op, err, lastOp, closedBy, finResult>>
       \/ /\ InitExcept(ErrCopystat)
          /\ UNCHANGED fs
    /\ UNCHANGED <<mode, backuppath, input, output, tmppath, ghost>>

\* mutant: the IOError of the first os.chown is not caught
chown_Propagates ==
    /\ pc = "chown"
    /\ \/ /\ fs' = [fs EXCEPT ![tmppath].uid = fs[realpath].uid,
                              ![tmppath].gid = fs[realpath].gid]
          /\ pc' = "open_read"
          /\ UNCHANGED <<closed, fin, exc, op, err, lastOp, closedBy, finResult>>
       \/ /\ InitExcept(ErrCopystat)
          /\ UNCHANGED fs
       \/ /\ pc' = "open_read"
          /\ UNCHANGED <<fs, closed, fin, exc, op, err, lastOp, closedBy, finResult>>
    /\ UNCHANGED <<mode, backuppath, input, output, tmppath, ghost>>

\* lines 276-281: os.chown(to_file, st.st_uid, st.st_gid), where the platform has chown
chown ==
    /\ pc = "chown"
    /\ \/ /\ fs' = [fs EXCEPT ![tmppath].uid = fs[realpath].uid,
                              ![tmppath].gid = fs[realpath].gid]
          /\ pc' = "open_read"
       \/ /\ pc' = "chown_group"        \* IOError: fall back to the group alone
          /\ UNCHANGED fs
       \/ /\ pc' = "open_read"          \* not hasattr(os, "chown")
          /\ UNCHANGED fs
    /\ UNCHANGED <<session, op, fin, exc, err, lastOp, ghost, closedBy, finResult>>

\* lines 282-285: os.chown(to_file, -1, st.st_gid); a second IOError is passed over
chown_group ==
    /\ pc = "chown_group"
    /\ \/ fs' = [fs EXCEPT ![tmppath].gid = fs[realpath].gid]
       \/ UNCHANGED fs
    /\ pc' = "open_read"
    /\ UNCHANGED <<session, op, fin, exc, err, lastOp, ghost, closedBy, finResult>>

\* mutant: the read handle is opened on the temporary file
open_read_OnTmp ==
    /\ pc = "open_read"
    /\ \/ /\ ValidMode(mode)
          /\ Exists(fs, realpath)
          /\ input' = OpenHandle(tmppath)
          /\ Return(OK)
          /\ UNCHANGED <<closed, closedBy>>
       \/ /\ InitExcept(IF ValidMode(mode) THEN ErrOpenRead ELSE ErrInvalidMode)
          /\ UNCHANGED input
    /\ UNCHANGED <<fs, mode, backuppath, output, tmppath, ghost>>

\* lines 104-105, 133-143: open(realpath, "r"); the constructor returns
open_read ==
    /\ pc = "open_read"
    /\ \/ /\ ValidMode(mode)
          /\ Exists(fs, realpath)
          /\ input' = OpenHandle(realpath)
          /\ Return(OK)
          /\ UNCHANGED <<closed, closedBy>>
       \/ /\ InitExcept(IF ValidMode(mode) THEN ErrOpenRead ELSE ErrInvalidMode)
          /\ UNCHANGED input
    /\ UNCHANGED <<fs, mode, backuppath, output, tmppath, ghost>>

\* ---- InPlace._close -------------------------------------------------------------
\* what the caller of _close does once _close has returned: close() goes on to its
\* renames (lines 180-183), rollback() to its unlink (lines 199-201)
AfterClose ==
    IF fin = "close"
    THEN pc' = (IF backuppath # None THEN "backup_replace" ELSE "tmp_replace")
         /\ UNCHANGED <<op, fin, exc, err, lastOp, finResult>>
    ELSE IF tmppath # None
    THEN pc' = "unlink" /\ UNCHANGED <<op, fin, exc, err, lastOp, finResult>>
    ELSE Return(IF exc # NoExc THEN exc ELSE OK)

\* lines 163-165: self.input.close(); self.input = None.  A close() that raises leaves
\* the attribute set and leaves _close and its caller (outside any try)
close_input ==
    /\ pc = "close_input"
    /\ \/ /\ input.state = "None"
          /\ pc' = "close_output"
          /\ UNCHANGED <<input, op, fin, exc, err, lastOp, finResult>>
       \/ /\ input.state # "None"
          /\ input' = NoHandle
          /\ pc' = "close_output"
          /\ UNCHANGED <<op, fin, exc, err, lastOp, finResult>>
       \/ /\ input.state # "None"
          /\ input' = [input EXCEPT !.state = "closed"]
          /\ Return(ErrCloseInput)
    /\ UNCHANGED <<fs, mode, backuppath, output, tmppath, closed, ghost, closedBy>>

\* the buffered data of a write handle goes to its file: the first n units of it
FlushTo(f, h, n) == [f EXCEPT ![h.path].content = @ \o Prefix(h.buf, n)]

\* mutant: the write handle is dropped with its buffer unflushed
close_output_Unflushed ==
    /\ pc = "close_output"
    /\ output' = NoHandle
    /\ AfterClose
    /\ UNCHANGED <<fs, mode, backuppath, input, tmppath, closed, ghost, closedBy>>

\* lines 166-168: self.output.close(); self.output = None.  Closing flushes the buffer;
\* a close() that raises has flushed some part of it
close_output ==
    /\ pc = "close_output"
    /\ \/ /\ output.state = "None"
          /\ AfterClose
          /\ UNCHANGED <<fs, output>>
       \/ /\ output.state # "None"
          /\ fs' = FlushTo(fs, output, Len(output.buf))
          /\ output' = NoHandle
          /\ AfterClose
       \/ /\ output.state # "None"
          /\ \E n \in 0..Len(output.buf) :
                /\ fs' = FlushTo(fs, output, n)
                /\ output' = [output EXCEPT !.state = "closed", !.buf = Suffix(@, n)]
          /\ Return(ErrCloseOutput)
    /\ UNCHANGED <<mode, backuppath, input, tmppath, closed, ghost, closedBy>>

\* ---- InPlace.close and InPlace.rollback -----------------------------------------
\* os.replace(src, dst): dst is replaced by src; the same path is left alone
Replace(f, src, dst) ==
    IF src = dst THEN f ELSE [f EXCEPT ![dst] = f[src], ![src] = NoFile]

\* mutant: close() without its guard
close_Unguarded ==
    /\ pc = "ready"
    /\ closed' = TRUE
    /\ closedBy' = "close"
    /\ finResult' = "pending"
    /\ op' = "close"
    /\ fin' = "close"
    /\ pc' = "close_input"
    /\ err' = None /\ lastOp' = None
    /\ UNCHANGED <<exc, fs, mode, backuppath, input, output, tmppath, ghost>>

\* mutant: close() goes to its renames with the handles still open
close_RenamesFirst ==
    /\ pc = "ready"
    /\ IF ~closed
       THEN /\ closed' = TRUE
            /\ closedBy' = "close"
            /\ finResult' = "pending"
            /\ op' = "close"
            /\ fin' = "close"
            /\ pc' = (IF backuppath # None THEN "backup_replace" ELSE "tmp_replace")
            /\ err' = None /\ lastOp' = None
            /\ UNCHANGED exc
       ELSE /\ ReturnFrom("close", OK)
            /\ UNCHANGED <<closed, closedBy>>
    /\ UNCHANGED <<fs, mode, backuppath, input, output, tmppath, ghost>>

\* lines 178-179: close() on an open session enters _close (closed is set, line 162);
\* on a closed one it does nothing
close ==
    /\ pc = "ready"
    /\ IF ~closed
       THEN /\ closed' = TRUE
            /\ closedBy' = "close"
            /\ finResult' = "pending"
            /\ op' = "close"
            /\ fin' = "close"
            /\ pc' = "close_input"
            /\ err' = None /\ lastOp' = None
            /\ UNCHANGED exc
       ELSE /\ ReturnFrom("close", OK)
            /\ UNCHANGED <<closed, closedBy>>
    /\ UNCHANGED <<fs, mode, backuppath, input, output, tmppath, ghost>>

\* lines 181-182: os.replace(self.realpath, self.backuppath), inside the try
backup_replace ==
    /\ pc = "backup_replace"
    /\ \/ /\ Exists(fs, realpath)
          /\ fs' = Replace(fs, realpath, backuppath)
          /\ pc' = "tmp_replace"
          /\ UNCHANGED exc
       \/ /\ exc' = ErrReplaceBackup
          /\ pc' = "unlink"
          /\ UNCHANGED fs
    /\ UNCHANGED <<session, op, fin, err, lastOp, ghost, closedBy, finResult>>

\* mutant: the arguments of the second os.replace exchanged
tmp_replace_Reversed ==
    /\ pc = "tmp_replace"
    /\ \/ /\ Exists(fs, realpath)
          /\ fs' = Replace(fs, realpath, tmppath)
          /\ UNCHANGED exc
       \/ /\ exc' = ErrReplaceTmp
          /\ UNCHANGED fs
    /\ pc' = "unlink"
    /\ UNCHANGED <<session, op, fin, err, lastOp, ghost, closedBy, finResult>>

\* line 183: os.replace(self._tmppath, self.realpath), inside the try
tmp_replace ==
    /\ pc = "tmp_replace"
    /\ \/ /\ Exists(fs, tmppath)
          /\ fs' = Replace(fs, tmppath, realpath)
          /\ UNCHANGED exc
       \/ /\ exc' = ErrReplaceTmp
          /\ UNCHANGED fs
    /\ pc' = "unlink"
    /\ UNCHANGED <<session, op, fin, err, lastOp, ghost, closedBy, finResult>>

\* lines 288-296: os.unlink(path); FileNotFoundError is passed over
try_unlink(f, p) == [f EXCEPT ![p] = NoFile]

\* lines 185-187 (the finally of close) and 199-201 (rollback): try_unlink(tmppath);
\* tmppath = None; then the pending exception, if any, goes on to the caller.  An
\* unlink that raises takes the place of the pending exception
unlink ==
    /\ pc = "unlink"
    /\ \/ /\ tmppath # None
          /\ fs' = try_unlink(fs, tmppath)
          /\ tmppath' = None
          /\ Return(IF exc # NoExc THEN exc ELSE OK)
       \/ /\ tmppath # None
          /\ Exists(fs, tmppath)
          /\ Return(ErrUnlink)
          /\ UNCHANGED <<fs, tmppath>>
       \/ /\ tmppath = None
          /\ Return(IF exc # NoExc THEN exc ELSE OK)
          /\ UNCHANGED <<fs, tmppath>>
    /\ UNCHANGED <<mode, backuppath, input, output, closed, ghost, closedBy>>

\* mutant: rollback() of a closed session does nothing, as close() does
rollback_Silent ==
    /\ pc = "ready"
    /\ IF ~closed
       THEN /\ closed' = TRUE
            /\ closedBy' = "rollback"
            /\ finResult' = "pending"
            /\ op' = "rollback"
            /\ fin' = "rollback"
            /\ pc' = "close_input"
            /\ err' = None /\ lastOp' = None
            /\ UNCHANGED exc
       ELSE /\ ReturnFrom("rollback", OK)
            /\ UNCHANGED <<closed, closedBy>>
    /\ UNCHANGED <<fs, mode, backuppath, input, output, tmppath, ghost>>

\* mutant: rollback() without its guard
rollback_Unguarded ==
    /\ pc = "ready"
    /\ closed' = TRUE
    /\ closedBy' = "rollback"
    /\ finResult' = "pending"
    /\ op' = "rollback"
    /\ fin' = "rollback"
    /\ pc' = "close_input"
    /\ err' = None /\ lastOp' = None
    /\ UNCHANGED <<exc, fs, mode, backuppath, input, output, tmppath, ghost>>

\* lines 197-203: rollback() on an open session enters _close; on a closed one it raises
rollback ==
    /\ pc = "ready"
    /\ IF ~closed
       THEN /\ closed' = TRUE
            /\ closedBy' = "rollback"
            /\ finResult' = "pending"
            /\ op' = "rollback"
            /\ fin' = "rollback"
            /\ pc' = "close_input"
            /\ err' = None /\ lastOp' = None
            /\ UNCHANGED exc
       ELSE /\ ReturnFrom("rollback", ErrRollbackClosed)
            /\ UNCHANGED <<closed, closedBy>>
    /\ UNCHANGED <<fs, mode, backuppath, input, output, tmppath, ghost>>

\* lines 113-119: __exit__(exc_type, ...): an open session is rolled back when an
\* exception is leaving the with block and closed otherwise; a closed one is left
\* alone.  __exit__ returns False, so the exception goes on
exit(et) ==
    /\ pc = "ready"
    /\ IF ~closed
       THEN /\ closed' = TRUE
            /\ closedBy' = (IF et # None THEN "rollback" ELSE "close")
            /\ exc_type' = et
            /\ finResult' = "pending"
            /\ op' = "__exit__"
            /\ fin' = (IF et # None THEN "rollback" ELSE "close")
            /\ pc' = "close_input"
            /\ err' = None /\ lastOp' = None
            /\ UNCHANGED exc
       ELSE /\ ReturnFrom("__exit__", OK)
            /\ UNCHANGED <<closed, closedBy, exc_type>>
    /\ UNCHANGED <<fs, mode, backuppath, input, output, tmppath, args, fs0, written>>

\* ---- the read and write methods ---------------------------------------------------
CheckOpen(o) ==
    /\ closed
    /\ ReturnFrom(o, ErrNotOpen)
    /\ UNCHANGED <<fs, session, ghost, closedBy>>

\* what a read of at most n units (all that is left when n < 0) through handle h returns
FileRead(f, h, n) ==
    LET c == f[h.path].content
        last == IF n < 0 THEN Len(c) ELSE Min(h.pos + n, Len(c))
    IN  SubSeq(c, h.pos + 1, last)

\* a read through self.input returned data
Delegated(o, data) ==
    /\ input' = [input EXCEPT !.pos = @ + Len(data), !.log = @ \o data]
    /\ ReturnFrom(o, OK)
    /\ UNCHANGED <<fs, mode, backuppath, output, tmppath, closed, ghost, closedBy>>

\* lines 205-208
read(size) ==
    /\ pc = "ready"
    /\ \/ CheckOpen("read")
       \/ ~closed /\ Delegated("read", FileRead(fs, input, size))

\* lines 210-213: one line, or nothing when size is 0
readline(size) ==
    /\ pc = "ready"
    /\ \/ CheckOpen("readline")
       \/ ~closed /\ Delegated("readline", FileRead(fs, input, IF size < 0 THEN 1 ELSE Min(size, 1)))

\* lines 215-218: every line that is left
readlines ==
    /\ pc = "ready"
    /\ \/ CheckOpen("readlines")
       \/ ~closed /\ Delegated("readlines", FileRead(fs, input, -1))

\* lines 220-223: at most len(b) units, into b
readinto(len_b) ==
    /\ pc = "ready"
    /\ \/ CheckOpen("readinto")
       \/ ~closed /\ Delegated("readinto", FileRead(fs, input, len_b))

\* mutant: what the handle passes on goes to the target
FileWrite_ToTarget(f, h, s, n) == [f EXCEPT ![realpath].content = @ \o Prefix(h.buf \o s, n)]

\* self.output.write: the data joins the handle's buffer, and the handle may pass the
\* first n units of the buffer on to the file
FileWrite(f, h, s, n) == [f EXCEPT ![h.path].content = @ \o Prefix(h.buf \o s, n)]

Accepted(o, s) ==
    /\ Len(written) + Len(s) <= MaxWritten
    /\ \E n \in 0..Len(output.buf \o s) :
          /\ fs' = FileWrite(fs, output, s, n)
          /\ output' = [output EXCEPT !.buf = Suffix(@ \o s, n)]
    /\ written' = written \o s
    /\ ReturnFrom(o, OK)
    /\ UNCHANGED <<mode, backuppath, input, tmppath, closed, args, fs0, closedBy, exc_type>>

\* lines 225-228
write(s) ==
    /\ pc = "ready"
    /\ \/ CheckOpen("write")
       \/ ~closed /\ Accepted("write", s)

RECURSIVE Concat(_)
Concat(seq) == IF seq = <<>> THEN <<>> ELSE Head(seq) \o Concat(Tail(seq))

\* lines 230-233
writelines(seq) ==
    /\ pc = "ready"
    /\ \/ CheckOpen("writelines")
       \/ ~closed /\ Accepted("writelines", Concat(seq))

\* lines 235-238: iter(self.input) is the handle itself; nothing is read yet
iter ==
    /\ pc = "ready"
    /\ \/ CheckOpen("__iter__")
       \/ /\ ~closed
          /\ ReturnFrom("__iter__", OK)
          /\ UNCHANGED <<fs, session, ghost, closedBy>>

\* mutant: flush() without its check of closed
flush_Unchecked ==
    /\ pc = "ready"
    /\ \/ /\ closed
          /\ ReturnFrom("flush", OK)
          /\ UNCHANGED <<fs, session, ghost, closedBy>>
       \/ /\ ~closed
          /\ fs' = FlushTo(fs, output, Len(output.buf))
          /\ output' = [output EXCEPT !.buf = <<>>]
          /\ ReturnFrom("flush", OK)
          /\ UNCHANGED <<mode, backuppath, input, tmppath, closed, ghost, closedBy>>
       \/ /\ ~closed
          /\ \E n \in 0..Len(output.buf) :
                /\ fs' = FlushTo(fs, output, n)
                /\ output' = [output EXCEPT !.buf = Suffix(@, n)]
          /\ ReturnFrom("flush", ErrFlush)
          /\ UNCHANGED <<mode, backuppath, input, tmppath, closed, ghost, closedBy>>

\* lines 240-243: the buffer goes to the temporary file; a flush that raises has
\* passed on some part of it and keeps the rest
flush ==
    /\ pc = "ready"
    /\ \/ CheckOpen("flush")
       \/ /\ ~closed
          /\ fs' = FlushTo(fs, output, Len(output.buf))
          /\ output' = [output EXCEPT !.buf = <<>>]
          /\ ReturnFrom("flush", OK)
          /\ UNCHANGED <<mode, backuppath, input, tmppath, closed, ghost, closedBy>>
       \/ /\ ~closed
          /\ \E n \in 0..Len(output.buf) :
                /\ fs' = FlushTo(fs, output, n)
                /\ output' = [output EXCEPT !.buf = Suffix(@, n)]
          /\ ReturnFrom("flush", ErrFlush)
          /\ UNCHANGED <<mode, backuppath, input, tmppath, closed, ghost, closedBy>>

\* ---- the session ----------------------------------------------------------------
\* the arguments a caller passes; mode "t" takes the branch of an unset mode (lines 138,
\* 150), "x" is a mode that open_read and open_write reject
Modes == {None, "b", "x"}
Backups == {None, "bak", name}
BackupExts == {None, "", ".ext"}
ExcTypes == {None, "Exception"}
Sizes == {-1, 0, 1}
\* what a caller passes to write and to writelines
Lines == {FreshLines(Len(written), 1)[1]}
LineSeqs == {FreshLines(Len(written), n) : n \in 0..MaxWritten}

Next ==
    \/ \E m \in Modes, b \in Backups, e \in BackupExts : InPlace_init(m, b, e)
    \/ mktemp
    \/ open_write
    \/ copystat
    \/ chown
    \/ chown_group
    \/ open_read
    \/ close
    \/ rollback
    \/ \E et \in ExcTypes : exit(et)
    \/ close_input
    \/ close_output
    \/ backup_replace
    \/ tmp_replace
    \/ unlink
    \/ \E size \in Sizes : read(size)
    \/ \E size \in Sizes : readline(size)
    \/ readlines
    \/ \E len_b \in 1..MaxOrig : readinto(len_b)
    \/ \E s \in Lines : write(s)
    \/ \E seq \in LineSeqs : writelines(seq)
    \/ iter
    \/ flush

Spec == Init /\ [][Next]_vars

\* ---- what the claims speak of ------------------------------------------------------
Orig == fs0[realpath]
ExistSet(f) == {p \in Paths : Exists(f, p)}
\* control is with the caller and the session was closed by a close() that returned normally
Committed == pc = "ready" /\ closedBy = "close" /\ finResult = OK
IOOps == {"read", "readline", "readlines", "readinto", "write", "writelines", "__iter__", "flush"}

\* C1: after a commit that succeeded, with or without a backup, the target holds exactly
\* the data written through the session, in call order
C1_CommitContent ==
    Committed => Exists(fs, realpath) /\ fs[realpath].content = written

C1_Witness ==
    /\ Committed
    /\ backuppath # None
    /\ Len(written) = 2 /\ written[1] # written[2]
    /\ written # Orig.content

\* the temporary file has taken the target's place
NewInPlace ==
    /\ closedBy = "close"
    /\ pc \in {"unlink", "ready"}
    /\ fs[realpath].content = written

\* C2, as claimed: in every state from open on, a file exists at the target and holds
\* exactly the original content or exactly the complete new content
C2_Original ==
    pc # "start" => Exists(fs, realpath) /\ (fs[realpath].content = Orig.content \/ NewInPlace)

\* C2, amended: the target never holds a partial mix (whenever a file exists there it is
\* the original file or holds the complete new content); no file is there only once
\* commit has moved the original to a backup path other than the target, which then
\* holds the original file; and with the handles closed and no rename applied yet the
\* target is the original file and the temporary file exists
C2_OldOrNewOrMovedAside ==
    pc # "start" =>
        /\ Exists(fs, realpath) => (fs[realpath] = Orig \/ NewInPlace)
        /\ ~Exists(fs, realpath) =>
              /\ closedBy = "close"
              /\ pc \in {"tmp_replace", "unlink", "ready"}
              /\ backuppath \notin {None, realpath}
              /\ fs[backuppath] = Orig
        /\ (pc = "backup_replace" \/ (pc = "tmp_replace" /\ backuppath \in {None, realpath})) =>
              /\ fs[realpath] = Orig
              /\ Exists(fs, tmppath)
              /\ fs[tmppath].content = written

C2_Witness ==
    /\ pc = "tmp_replace"
    /\ ~Exists(fs, realpath)
    /\ fs[backuppath] = Orig
    /\ Exists(fs, tmppath)

\* C3: after a session was ended by rollback, the directory is as it was before the
\* session was opened: the target (content and metadata) and the backup paths are
\* unchanged and the temporary file is gone
C3_RollbackRestores ==
    (pc = "ready" /\ closedBy = "rollback" /\ finResult # "pending") => fs = fs0

\* C4: after a commit that succeeded with a backup configured, the backup path holds the
\* content the target had before the session was opened
C4_BackupHoldsOriginal ==
    (Committed /\ backuppath # None) =>
        Exists(fs, backuppath) /\ fs[backuppath].content = Orig.content

\* C5: after a commit that succeeded the temporary file is gone, and the paths that exist
\* are those that existed before the session, and the backup path if one is configured
C5_NoResidue ==
    Committed =>
        /\ ~Exists(fs, TmpName)
        /\ tmppath = None
        /\ ExistSet(fs) = ExistSet(fs0) \cup (IF backuppath # None THEN {backuppath} ELSE {})

C5_Witness ==
    /\ Committed
    /\ backuppath # None
    /\ ~Exists(fs0, backuppath)
    /\ Exists(fs, backuppath)

\* C6: close() on a closed session returns normally at once and changes neither the
\* directory nor the session
C6_CloseClosedNoop ==
    [][(pc = "ready" /\ closed /\ (lastOp' = "close" \/ op' = "close")) =>
            /\ lastOp' = "close" /\ err' = OK /\ pc' = "ready"
            /\ fs' = fs
            /\ session' = session]_vars

C6_Witness ==
    /\ pc = "ready" /\ closed
    /\ lastOp = "close" /\ err = OK
    /\ closedBy = "rollback" /\ finResult = OK

\* C7: rollback() on a closed session raises the ValueError of line 203 and changes
\* neither the directory nor the session
C7_RollbackClosedRaises ==
    [][(pc = "ready" /\ closed /\ (lastOp' = "rollback" \/ op' = "rollback")) =>
            /\ lastOp' = "rollback" /\ err' = ErrRollbackClosed /\ pc' = "ready"
            /\ fs' = fs
            /\ session' = session]_vars

C7_Witness ==
    /\ pc = "ready" /\ closed
    /\ lastOp = "rollback" /\ err = ErrRollbackClosed
    /\ Committed
    /\ fs[realpath].content = written /\ written # Orig.content

\* C8: a constructor given both backup and backup_ext, or an empty backup_ext, raises
\* its ValueError with no file created: the directory is as before the call
C8_ConfigurationError ==
    (pc # "start" /\ ((args.backup # None /\ args.backup_ext # None) \/ args.backup_ext = "")) =>
        /\ pc = "noobject"
        /\ err \in {ErrBothBackups, ErrEmptyExt}
        /\ lastOp = "__init__"
        /\ fs = fs0
        /\ tmppath = None /\ input = NoHandle /\ output = NoHandle

C8_Witness ==
    /\ pc = "noobject"
    /\ err = ErrEmptyExt
    /\ args.backup = None /\ args.backup_ext = ""

\* C9: on a closed session each of the eight read and write methods raises the
\* ValueError of a closed session and changes neither the directory nor the session
C9_ClosedSessionError ==
    [][(pc = "ready" /\ closed /\ lastOp' \in IOOps) =>
            /\ err' = ErrNotOpen /\ pc' = "ready"
            /\ fs' = fs
            /\ session' = session
            /\ written' = written]_vars

C9_Witness ==
    /\ pc = "ready" /\ closed
    /\ lastOp = "flush" /\ err = ErrNotOpen
    /\ closedBy = "rollback"

\* the steps of the constructor from the creation of the temporary file on
OpenFailures == {ErrMkstemp, ErrOpenWrite, ErrInvalidMode, ErrCopystat, ErrOpenRead}

\* C10: when a step of the constructor from mkstemp on has failed and the constructor
\* has returned control, the temporary file does not exist, no handle is left open, the
\* target is unchanged and the caller has received that step's exception
C10_OpenFailureCleansUp ==
    (pc = "noobject" /\ exc \in OpenFailures) =>
        /\ ~Exists(fs, TmpName)
        /\ input.state # "open" /\ output.state # "open"
        /\ fs[realpath] = Orig
        /\ err = exc

\* C11: when __exit__ has returned, whatever happened inside the with block and whether
\* or not the finalization raised, the session is closed, by close() or by rollback();
\* if __exit__ found it open, rollback() ran exactly when an exception was leaving the
\* block and close() exactly when none was; both handles are released and the temporary
\* file does not exist
C11_ScopeExit ==
    (pc = "ready" /\ lastOp = "__exit__") =>
        /\ closed
        /\ closedBy \in {"close", "rollback"}
        /\ exc_type # NoExit => (closedBy = "rollback" <=> exc_type # None)
        /\ input.state # "open" /\ output.state # "open"
        /\ ~Exists(fs, TmpName)

\* C12: a constructor given a mode other than "b", "t" or unset never yields a session
\* and opens no handle; it raises the ValueError of line 155 where the first handle
\* would be opened, and once it has done so the directory is as before the call: the
\* temporary file is removed and the target untouched
C12_InvalidMode ==
    (pc # "start" /\ BackupError(args.backup, args.backup_ext) = OK /\ ~ValidMode(args.mode)) =>
        /\ pc # "ready"
        /\ input = NoHandle /\ output = NoHandle
        /\ fs[realpath] = Orig
        /\ (pc = "noobject" /\ exc = ErrInvalidMode) =>
              /\ err = ErrInvalidMode
              /\ ~Exists(fs, TmpName)
              /\ fs = fs0

\* the exceptions of the two os.replace of close()
RenameErrors == {ErrReplaceBackup, ErrReplaceTmp}

\* C13: when one of the two os.replace of close() raises, the cleanup of the finally
\* clause runs next, and when close() then returns, the temporary file does not exist,
\* the session is closed with _tmppath None, and the caller receives the exception of
\* the rename
C13_CleanupAfterRenameError ==
    [][/\ (pc \in {"backup_replace", "tmp_replace"} /\ exc' \in RenameErrors) => pc' = "unlink"
       /\ (fin = "close" /\ pc = "unlink" /\ exc \in RenameErrors) =>
             /\ pc' = "ready"
             /\ ~Exists(fs', TmpName)
             /\ closed' /\ tmppath' = None
             /\ err' = exc]_vars

\* C14: once a close() that finalized the session has returned raising (a handle's
\* close, the backup rename or the temp-to-target rename failed; with or without a
\* backup), a file exists at the target with exactly the original content and no
\* temporary file is left
C14_FailedCommitKeepsTarget ==
    (pc = "ready" /\ closedBy = "close" /\ finResult \notin {"pending", OK}) =>
        /\ Exists(fs, realpath)
        /\ fs[realpath].content = Orig.content
        /\ ~Exists(fs, TmpName)

\* the exceptions of the two handle closes of _close
CloseErrors == {ErrCloseInput, ErrCloseOutput}

\* C15: in every close(), an os.replace is attempted only once both handles are closed
\* and everything written has reached the temporary file; no path but the temporary
\* file's changes at any other step; and when a handle's close raises, close() returns
\* at once with no rename performed
C15_ClosedBeforeRename ==
    [][/\ pc \in {"backup_replace", "tmp_replace"} =>
             /\ input = NoHandle /\ output = NoHandle
             /\ Exists(fs, TmpName)
             /\ fs[TmpName].content = written
       /\ (\E p \in Paths \ {TmpName} : fs'[p] # fs[p]) =>
             pc \in {"backup_replace", "tmp_replace"}
       /\ (fin = "close" /\ pc \in {"close_input", "close_output"} /\ err' \in CloseErrors) =>
             /\ pc' = "ready"
             /\ \A p \in Paths \ {TmpName} : fs'[p] = fs0[p]]_vars

C15_Witness ==
    /\ pc = "tmp_replace"
    /\ backuppath \notin {None, realpath}
    /\ fs[backuppath] = Orig
    /\ input = NoHandle /\ output = NoHandle
    /\ Len(written) = 2 /\ fs[TmpName].content = written

\* C16: whenever control is with the caller, also after a call that raised: an open
\* session has _tmppath, input and output all set, and a closed session has all three
\* None
C16_FieldsFollowClosed ==
    pc = "ready" =>
        /\ ~closed => (tmppath # None /\ input.state = "open" /\ output.state = "open")
        /\ closed => (tmppath = None /\ input = NoHandle /\ output = NoHandle)

\* C17: closed never goes from True back to False; what closed the session (close(),
\* rollback() or the constructor's own rollback) is settled once and for all; the
\* directory changes on a closed session only during the call that closed it, and once
\* that call has returned no later call changes the directory
C17_ClosedOnce ==
    [][/\ closed => closed'
       /\ closedBy # None => closedBy' = closedBy
       /\ (closed' /\ ~closed) => closedBy' \in {"close", "rollback", "__init__"}
       /\ (closed /\ fs' # fs) =>
             /\ finResult = "pending"
             /\ fin = (IF closedBy = "__init__" THEN "rollback" ELSE closedBy)
       /\ finResult \notin {None, "pending"} => fs' = fs]_vars

C17_Witness ==
    /\ pc = "ready" /\ closed
    /\ closedBy = "rollback" /\ finResult = ErrCloseOutput
    /\ lastOp = "close" /\ err = OK
    /\ Exists(fs, TmpName) /\ tmppath # None

\* C18: on an open session no read, write, writelines, __iter__ or flush changes any
\* path but the temporary file's: the target and the backup paths keep content and
\* existence, and what is written reaches the temporary file only; such a path changes
\* only at the two os.replace of close()
C18_IOTouchesTempOnly ==
    [][/\ (pc = "ready" /\ ~closed /\ lastOp' \in IOOps) =>
             /\ \A p \in Paths \ {TmpName} : fs'[p] = fs[p]
             /\ Exists(fs', TmpName)
             /\ fs' # fs => lastOp' \in {"write", "writelines", "flush"}
       /\ (\E p \in Paths \ {TmpName} : fs'[p] # fs[p]) =>
             /\ fin = "close"
             /\ pc \in {"backup_replace", "tmp_replace"}]_vars

C18_Witness ==
    /\ pc = "ready" /\ ~closed
    /\ lastOp = "writelines" /\ err = OK
    /\ Len(written) = 2
    /\ fs[TmpName].content = written
    /\ input.pos = Len(Orig.content) /\ input.pos = 2
    /\ \A p \in Paths \ {TmpName} : fs[p] = fs0[p]

\* C19: whatever has been written through the session, the data the reads have
\* returned, in call order, is a prefix of the content the target had when the session
\* was opened, and a read of everything that is left (readlines) brings it to exactly
\* that content
C19_ReadsSeeOriginal ==
    /\ input.state # "None" =>
          /\ Len(input.log) <= Len(Orig.content)
          /\ input.log = Prefix(Orig.content, Len(input.log))
    /\ (pc = "ready" /\ lastOp = "readlines" /\ err = OK) => input.log = Orig.content

C19_Witness ==
    /\ pc = "ready" /\ ~closed
    /\ lastOp = "readlines" /\ err = OK
    /\ written # <<>> /\ fs[TmpName].content = written
    /\ input.log = Orig.content /\ Len(input.log) = 2

\* the temporary file of directory f with the owner u and the group g
TmpOwnedBy(f, u, g) == [f EXCEPT ![TmpName].uid = u, ![TmpName].gid = g]

\* C20: in copystats a failing os.chown never raises: the chown of owner and group
\* either succeeds or is followed by the chown of the group alone, which is attempted
\* in that case only and whose failure is passed over; in all three outcomes only the
\* owner and group of the temporary file may have changed, no exception is pending and
\* the constructor goes on to open_read.  A shutil.copystat that raises does leave
\* copystats, and the constructor enters its own rollback with that exception
C20_OwnershipBestEffort ==
    [][/\ pc = "chown" =>
             /\ pc' \in {"open_read", "chown_group"}
             /\ fs' \in {fs, TmpOwnedBy(fs, Orig.uid, Orig.gid)}
             /\ pc' = "chown_group" => fs' = fs
       /\ pc' = "chown_group" => pc = "chown"
       /\ pc = "chown_group" =>
             /\ pc' = "open_read"
             /\ fs' \in {fs, TmpOwnedBy(fs, fs[TmpName].uid, Orig.gid)}
       /\ pc \in {"chown", "chown_group"} =>
             /\ exc' = NoExc /\ ~closed' /\ op' = "__init__"
             /\ output' = output /\ tmppath' = tmppath
       /\ pc' = "open_read" =>
             /\ fs'[TmpName].perm = Orig.perm
             /\ <<fs'[TmpName].uid, fs'[TmpName].gid>> \in
                   {<<Orig.uid, Orig.gid>>, <<"me", Orig.gid>>, <<"me", "g_me">>}
       /\ (pc = "copystat" /\ pc' # "chown") =>
             /\ exc' = ErrCopystat
             /\ pc' = "close_input" /\ fin' = "rollback" /\ closed'
             /\ fs' = fs]_vars

C20_Witness ==
    /\ pc = "open_read"
    /\ Orig.uid = "other" /\ Orig.gid = "g_other"
    /\ fs[TmpName].uid = "me" /\ fs[TmpName].gid = "g_other"
    /\ fs[TmpName].perm = Orig.perm
    /\ exc = NoExc /\ ~closed

====
